---- MODULE Spec2Model ----
(***************************************************************************)
(* Model of the legal document processor of src/f3.py (desktop front end,  *)
(* class App) and src/st_ui.py (web front end).                            *)
(*                                                                         *)
(* A text is a sequence of atoms.  An atom is a string standing for the    *)
(* characters it spells; whitespace, punctuation, '*' and the words the    *)
(* program's patterns look for are atoms of their own, so that strip,      *)
(* split, replace, splitlines and the three regular expressions are        *)
(* computed on the text and not assumed.  Letters with diacritics are     *)
(* written without them (Clan, clana, racunovodstvu, vaze).                *)
(*                                                                         *)
(* A document is the sequence of the identities of its body children (in   *)
(* document order); heap[id] is the XML element with identity id.  Copies  *)
(* allocate new identities, mutations act on one identity.                 *)
(***************************************************************************)
EXTENDS Integers, Sequences, FiniteSets, TLC

VARIABLES
    ui,            \* "tk": App of f3.py is running, "st": st_ui.py is running
    heap,          \* heap[id]: the element with identity id
    orig,          \* body children of Document(orig_path)
    gov,           \* body children of Document(amend_path)
    new_d,         \* body children of Document(new_path), or NoDocument
    updated_doc,   \* body children of the output of process_part_a, or NoDocument
    diff_doc,      \* body children of the output of process_part_b, or NoDocument
    pc,            \* position of the running handler
    articles,      \* process_part_a: the article index computed once
    todo,          \* process_part_a: (inst, article_num, stav_num) still to iterate
    cur,           \* process_part_a: the instruction being applied
    attempt,       \* apply_amendment_text: loop counter
    calls,         \* apply_amendment_text: service calls made by this invocation
    new_lines,     \* apply_amendment_text: returned line list
    from_service,  \* apply_amendment_text: the return came from line 291
    opcodes,       \* process_part_b: matcher.get_opcodes()
    diff_blocks,   \* process_part_b: list(iter_block_items(diff_doc)) before annotation
    input,         \* arguments of the function applied on its own
    result         \* value that function returned

vars == <<ui, heap, orig, gov, new_d, updated_doc, diff_doc, pc, articles, todo,
          cur, attempt, calls, new_lines, from_service, opcodes, diff_blocks,
          input, result>>

None == "None"

\* What a document variable holds when it holds no document (None, or no
\* file chosen): no body has a child 0.
NoDocument == <<0>>

\* ------------------------------------------------------------------ bounds

\* Longest body (number of blocks) of an original document drawn by InitA.
MaxBlocks == 3

\* ------------------------------------------------------------- sequences

Range(s) == {s[i] : i \in DOMAIN s}

Min(S) == CHOOSE x \in S : \A y \in S : x <= y

Max(S) == CHOOSE x \in S : \A y \in S : x >= y

RECURSIVE Concat(_)
Concat(ss) == IF ss = <<>> THEN <<>> ELSE Head(ss) \o Concat(Tail(ss))

\* The sequences over S of length at most n.
SeqUpTo(S, n) == UNION {[1..k -> S] : k \in 0..n}

\* s with the element at index i (1-based) removed.
RemoveAt(s, i) == SubSeq(s, 1, i - 1) \o SubSeq(s, i + 1, Len(s))

\* s with x inserted so that it gets index i (1-based), as list.insert does:
\* an index past the end appends.
InsertAt(s, i, x) ==
    IF i > Len(s) THEN Append(s, x)
    ELSE SubSeq(s, 1, i - 1) \o <<x>> \o SubSeq(s, i, Len(s))

\* ------------------------------------------------------------ str methods

WS == {" ", "\n", "\t"}

Digits == {"1", "2", "3", "9", "44", "95", "2020", "2021", "2022"}

\* The code points of the characters an atom spells (the atoms that occur in
\* citation lists; str comparison and str.isdigit read them).
ord(a) ==
    CASE a = "1"    -> <<49>>
      [] a = "2"    -> <<50>>
      [] a = "3"    -> <<51>>
      [] a = "9"    -> <<57>>
      [] a = "44"   -> <<52, 52>>
      [] a = "95"   -> <<57, 53>>
      [] a = "2020" -> <<50, 48, 50, 48>>
      [] a = "2021" -> <<50, 48, 50, 49>>
      [] a = "2022" -> <<50, 48, 50, 50>>
      [] a = "/"    -> <<47>>
      [] a = " "    -> <<32>>
      [] a = "-"    -> <<45>>
      [] a = "i"    -> <<105>>
      [] a = "*"    -> <<42>>
      [] a = "("    -> <<40>>
      [] a = ")"    -> <<41>>
      [] a = "dr. zakon" -> <<100, 114, 46, 32, 122, 97, 107, 111, 110>>
      [] OTHER      -> <<122>>

RECURSIVE chars(_)
chars(t) == IF t = <<>> THEN <<>> ELSE ord(Head(t)) \o chars(Tail(t))

\* x < y for two str values, by code point (Python's str.__lt__).
RECURSIVE CodesLess(_, _)
CodesLess(x, y) ==
    IF y = <<>> THEN FALSE
    ELSE IF x = <<>> THEN TRUE
    ELSE IF Head(x) # Head(y) THEN Head(x) < Head(y)
    ELSE CodesLess(Tail(x), Tail(y))

StrLess(x, y) == CodesLess(chars(x), chars(y))

isdigit(t) == t # <<>> /\ \A i \in DOMAIN chars(t) : chars(t)[i] \in 48..57

RECURSIVE lstrip(_)
lstrip(t) == IF t # <<>> /\ Head(t) \in WS THEN lstrip(Tail(t)) ELSE t

RECURSIVE rstrip(_)
rstrip(t) ==
    IF t # <<>> /\ t[Len(t)] \in WS THEN rstrip(SubSeq(t, 1, Len(t) - 1)) ELSE t

strip(t) == rstrip(lstrip(t))

\* p occurs in t at index i (1-based).
OccursAt(t, i, p) ==
    /\ i >= 1
    /\ i + Len(p) - 1 <= Len(t)
    /\ SubSeq(t, i, i + Len(p) - 1) = p

\* The least index >= from at which p occurs in t, 0 when there is none.
find(t, p, from) ==
    LET hits == {i \in from..Len(t) : OccursAt(t, i, p)}
    IN  IF hits = {} THEN 0 ELSE Min(hits)

\* sub in text
contains(t, p) == find(t, p, 1) # 0

RECURSIVE split(_, _)
split(t, sep) ==
    LET k == find(t, sep, 1)
    IN  IF k = 0 THEN <<t>>
        ELSE <<SubSeq(t, 1, k - 1)>> \o split(SubSeq(t, k + Len(sep), Len(t)), sep)

RECURSIVE replace(_, _, _)
replace(t, old, new) ==
    LET k == find(t, old, 1)
    IN  IF k = 0 THEN t
        ELSE SubSeq(t, 1, k - 1) \o new
             \o replace(SubSeq(t, k + Len(old), Len(t)), old, new)

RECURSIVE join(_, _)
join(sep, parts) ==
    IF parts = <<>> THEN <<>>
    ELSE IF Len(parts) = 1 THEN parts[1]
    ELSE parts[1] \o sep \o join(sep, Tail(parts))

RECURSIVE splitlines(_)
splitlines(t) ==
    IF t = <<>> THEN <<>>
    ELSE LET k == find(t, <<"\n">>, 1)
         IN  IF k = 0 THEN <<t>>
             ELSE <<SubSeq(t, 1, k - 1)>> \o splitlines(SubSeq(t, k + 1, Len(t)))

\* ------------------------------------------------------------- patterns

ClanWords == {"Clan", "CLAN", "clan"}

\* ARTICLE_RE.match(t): ^Clan\s+(\d+[a-zA-Z]*), re.IGNORECASE.
ARTICLE_RE(t) ==
    /\ Len(t) >= 3
    /\ t[1] \in ClanWords
    /\ t[2] \in WS
    /\ LET rest == lstrip(SubSeq(t, 2, Len(t)))
       IN  rest # <<>> /\ Head(rest) \in Digits

GazetteMarker == <<"Sl. glasnik RS">>

\* The literal head of GAZETTE_RE: "Sl. glasnik RS", br.
GazetteHead == <<"\"", "Sl. glasnik RS", "\"", ",", " ", "br.", " ">>

\* GAZETTE_RE.search(t): the leftmost occurrence of the literal head followed
\* by (.+?)\) ; <<start, end>> of group(0), 1-based inclusive, or <<0, 0>>.
\* The lazy group takes at least one character, none of them a line break.
GAZETTE_RE(t) ==
    LET closes(i) == {j \in (i + Len(GazetteHead) + 1)..Len(t) :
                        /\ t[j] = ")"
                        /\ \A k \in (i + Len(GazetteHead))..(j - 1) : t[k] # "\n"}
        starts == {i \in 1..Len(t) : OccursAt(t, i, GazetteHead) /\ closes(i) # {}}
    IN  IF starts = {} THEN <<0, 0>>
        ELSE <<Min(starts), Min(closes(Min(starts)))>>

\* m.group(1) of a match m of GAZETTE_RE in t.
GazetteGroup1(t, m) == SubSeq(t, m[1] + Len(GazetteHead), m[2] - 1)

\* CHANGE_RE: clana (\d+)\. stav (\d+)\. Zakona o racunovodstvu ; the groups
\* of a match at index i, or <<>> when there is no match at i.
ChangeLen == 11

CHANGE_RE_at(t, i) ==
    IF /\ i + ChangeLen - 1 <= Len(t)
       /\ t[i] = "clana" /\ t[i + 1] = " " /\ t[i + 2] \in Digits
       /\ t[i + 3] = "." /\ t[i + 4] = " " /\ t[i + 5] = "stav"
       /\ t[i + 6] = " " /\ t[i + 7] \in Digits /\ t[i + 8] = "."
       /\ t[i + 9] = " " /\ t[i + 10] = "Zakona o racunovodstvu"
    THEN <<t[i + 2], t[i + 7]>>
    ELSE <<>>

\* CHANGE_RE.findall(t) scanning from index i: the non-overlapping matches,
\* left to right.
RECURSIVE CHANGE_RE_findall(_, _)
CHANGE_RE_findall(t, i) ==
    IF i > Len(t) THEN <<>>
    ELSE IF CHANGE_RE_at(t, i) # <<>>
         THEN <<CHANGE_RE_at(t, i)>> \o CHANGE_RE_findall(t, i + ChangeLen)
         ELSE CHANGE_RE_findall(t, i + 1)

\* ------------------------------------------------------------- elements

\* A run (w:r): its text and the formatting deep_copy_paragraph copies
\* (italic and underline are copied exactly as bold is and are left out).
Run(text) ==
    [text |-> text, bold |-> None, font |-> None, size |-> None,
     color |-> None, shd |-> <<>>]

NoIndents == [left |-> None, right |-> None, first_line |-> None]

NoSpacing == [space_before |-> None, space_after |-> None, line_spacing |-> None]

\* A paragraph (w:p, CT_P).  shd lists the fills of the w:shd children of its
\* w:pPr in document order; cells is unused.
Paragraph(runs) ==
    [kind |-> "P", style |-> None, align |-> None, indents |-> NoIndents,
     spacing |-> NoSpacing, shd |-> <<>>, runs |-> runs, cells |-> <<>>]

\* A table (w:tbl, CT_Tbl) of one row: cells[c] = [shd, paras], paras the
\* paragraph elements of the cell.
Table(cells) ==
    [kind |-> "T", style |-> None, align |-> None, indents |-> NoIndents,
     spacing |-> NoSpacing, shd |-> <<>>, runs |-> <<>>, cells |-> cells]

\* Paragraph.text: the texts of the runs, concatenated.
RECURSIVE text(_)
text(runs) == IF runs = <<>> THEN <<>> ELSE Head(runs).text \o text(Tail(runs))

\* The paragraph python-docx makes for add_paragraph(t): one run when t is
\* not empty, none otherwise.
NewParagraph(t) == Paragraph(IF t = <<>> THEN <<>> ELSE <<Run(t)>>)

\* get_paragraph_shading / get_run_shading / get_cell_shading: the fill of
\* the first w:shd, None when there is none or it is empty.  (The '#' the
\* getters prepend is the one the setters strip.)
get_shading(shd) == IF shd = <<>> \/ shd[1] = "" THEN None ELSE shd[1]

\* set_paragraph_shading / set_run_shading / set_cell_shading: a falsy value
\* returns at once; otherwise a new w:shd is appended after those present.
set_shading(shd, shading_hex) ==
    IF shading_hex = None THEN shd ELSE Append(shd, shading_hex)

\* WD_ALIGN_PARAGRAPH members are ints; LEFT is 0 and therefore falsy.
Falsy(alignment) == alignment \in {None, "left"}

\* set_alignment(paragraph, align_str) on the alignment a paragraph has.
set_alignment(align, align_str) ==
    IF align_str = None THEN align
    ELSE IF align_str \in {"left", "center", "right", "justify"} THEN align_str
    ELSE None

\* set_indents / set_spacing: every key the dict holds is written, the other
\* settings of the target stay.  (Pt(x.pt) is taken to return x.)
set_indents(tgt, indents) ==
    [left       |-> IF indents.left # None THEN indents.left ELSE tgt.left,
     right      |-> IF indents.right # None THEN indents.right ELSE tgt.right,
     first_line |-> IF indents.first_line # None THEN indents.first_line
                    ELSE tgt.first_line]

set_spacing(tgt, spacing) ==
    [space_before  |-> IF spacing.space_before # None THEN spacing.space_before
                       ELSE tgt.space_before,
     space_after   |-> IF spacing.space_after # None THEN spacing.space_after
                       ELSE tgt.space_after,
     line_spacing  |-> IF spacing.line_spacing # None THEN spacing.line_spacing
                       ELSE tgt.line_spacing]

\* The run deep_copy_paragraph adds to the target for one run of the source.
CopyRun(run) ==
    [text |-> run.text, bold |-> run.bold, font |-> run.font, size |-> run.size,
     color |-> run.color, shd |-> set_shading(<<>>, get_shading(run.shd))]

CopyRuns(runs) == [i \in DOMAIN runs |-> CopyRun(runs[i])]

\* deep_copy_paragraph(source, target) on the two elements: the element the
\* target is afterwards.  target.clear() drops every run the target had, the
\* text it was created with included.
CopyParagraph(source, target) ==
    [kind    |-> "P",
     style   |-> source.style,
     align   |-> set_alignment(target.align,
                    IF Falsy(source.align) THEN None ELSE source.align),
     indents |-> set_indents(target.indents, source.indents),
     spacing |-> set_spacing(target.spacing, source.spacing),
     shd     |-> set_shading(target.shd, get_shading(source.shd)),
     runs    |-> CopyRuns(source.runs),
     cells   |-> <<>>]

\* for run in p.runs: run.font.color.rgb = color
ColorRuns(p, color) ==
    [p EXCEPT !.runs = [i \in DOMAIN p.runs |-> [p.runs[i] EXCEPT !.color = color]]]

\* The cell deep_copy_table fills for one source cell: a fresh cell holds one
\* empty paragraph, and one paragraph is added per paragraph of the source.
CopyCell(cell, color) ==
    [shd   |-> IF get_shading(cell.shd) # None THEN <<"8A084B">> ELSE <<>>,
     paras |-> <<NewParagraph(<<>>)>> \o
               [i \in DOMAIN cell.paras |->
                   LET target_p == CopyParagraph(cell.paras[i], NewParagraph(<<>>))
                   IN  IF color # None THEN ColorRuns(target_p, color) ELSE target_p]]

\* ------------------------------------------------- documents and the heap

\* A machine m = [h, d]: the heap and the body children of the document
\* being written.

\* doc.add_paragraph(t) / doc.add_table(...): a new element, last in the body.
AddElement(m, el) == [h |-> Append(m.h, el), d |-> Append(m.d, Len(m.h) + 1)]

add_paragraph(m, t) == AddElement(m, NewParagraph(t))

\* deep_copy_paragraph(source, target) on the elements with these identities.
deep_copy_paragraph(m, source, target) ==
    [m EXCEPT !.h[target] = CopyParagraph(m.h[source], m.h[target])]

\* deep_copy_table(source_table, target_doc, color).
deep_copy_table(m, source_table, color) ==
    AddElement(m, Table([c \in DOMAIN m.h[source_table].cells |->
                            CopyCell(m.h[source_table].cells[c], color)]))

\* list(iter_block_items(doc)) is the body itself: every element of the heap
\* is a paragraph or a table.  doc.paragraphs keeps the paragraphs only.
paragraphs(h, d) == SelectSeq(d, LAMBDA id : h[id].kind = "P")

IsParagraph(h, id) == h[id].kind = "P"

TextOf(h, id) == text(h[id].runs)

\* The texts of the paragraphs of a body, tables skipped.
Texts(h, d) == [i \in DOMAIN paragraphs(h, d) |-> TextOf(h, paragraphs(h, d)[i])]

\* Lines 432-437 (st_ui.py 56-61): every block of the original is copied to
\* the end of the output document.
RECURSIVE CloneBlocks(_, _)
CloneBlocks(m, blocks) ==
    IF blocks = <<>> THEN m
    ELSE LET block == Head(blocks)
             m1 == IF IsParagraph(m.h, block)
                   THEN deep_copy_paragraph(add_paragraph(m, <<>>), block, Len(m.h) + 1)
                   ELSE deep_copy_table(m, block, None)
         IN  CloneBlocks(m1, Tail(blocks))

\* ------------------------------------------------------- extract_articles

\* d[k] = v on a dict.
DictSet(d, k, v) == [x \in DOMAIN d \cup {k} |-> IF x = k THEN v ELSE d[x]]

EmptyDict == [x \in {} |-> <<0, 0>>]

\* The loop of extract_articles from block index i (0-based) on.
RECURSIVE ExtractLoop(_, _, _, _, _, _)
ExtractLoop(h, blocks, i, current_article, start, arts) ==
    IF i >= Len(blocks)
    THEN IF current_article # None
         THEN DictSet(arts, current_article, <<start, Len(blocks)>>)
         ELSE arts
    ELSE LET block == blocks[i + 1]
         IN  IF IsParagraph(h, block) /\ ARTICLE_RE(strip(TextOf(h, block)))
             THEN ExtractLoop(h, blocks, i + 1, strip(TextOf(h, block)), i,
                     IF current_article # None
                     THEN DictSet(arts, current_article, <<start, i>>)
                     ELSE arts)
             ELSE ExtractLoop(h, blocks, i + 1, current_article, start, arts)

\* extract_articles scanning blocks[:-1]: the last span ends one block early.
extract_articles_short(h, doc) ==
    ExtractLoop(h, SubSeq(doc, 1, Len(doc) - 1), 0, None, 0, EmptyDict)

extract_articles(h, doc) == ExtractLoop(h, doc, 0, None, 0, EmptyDict)

\* ----------------------------------------------------- merge_gazette_text

\* set(ref.strip() for ref in group1.split(' i '))
Refs(group1) ==
    {strip(split(group1, <<" ", "i", " ">>)[k]) :
        k \in DOMAIN split(group1, <<" ", "i", " ">>)}

\* The sort key of line 258, (not x.isdigit(), x): x goes before y.
KeyLess(x, y) ==
    \/ isdigit(x) /\ ~isdigit(y)
    \/ isdigit(x) = isdigit(y) /\ StrLess(x, y)

\* sorted(S, key=...): the elements of S in ascending key order.
RECURSIVE sorted(_)
sorted(S) ==
    IF S = {} THEN <<>>
    ELSE LET x == CHOOSE x \in S : \A y \in S \ {x} : KeyLess(x, y)
         IN  <<x>> \o sorted(S \ {x})

\* merged_refs with old_refs.intersection(new_refs) in place of the union.
merged_refs_common(old_text, new_text) ==
    sorted(Refs(GazetteGroup1(old_text, GAZETTE_RE(old_text)))
           \cap Refs(GazetteGroup1(new_text, GAZETTE_RE(new_text))))

\* merged_refs of line 258.
merged_refs(old_text, new_text) ==
    sorted(Refs(GazetteGroup1(old_text, GAZETTE_RE(old_text)))
           \cup Refs(GazetteGroup1(new_text, GAZETTE_RE(new_text))))

\* merge_gazette_text returning new_text when a citation list is missing.
merge_gazette_text_or_new(old_text, new_text) ==
    LET m_old == GAZETTE_RE(old_text)
        m_new == GAZETTE_RE(new_text)
    IN  IF m_old # <<0, 0>> /\ m_new # <<0, 0>>
        THEN replace(old_text, SubSeq(old_text, m_old[1], m_old[2]),
                     <<"(">> \o GazetteHead
                     \o join(<<" ", "i", " ">>, merged_refs(old_text, new_text))
                     \o <<")">>)
        ELSE new_text

merge_gazette_text(old_text, new_text) ==
    LET m_old == GAZETTE_RE(old_text)
        m_new == GAZETTE_RE(new_text)
    IN  IF m_old # <<0, 0>> /\ m_new # <<0, 0>>
        THEN replace(old_text, SubSeq(old_text, m_old[1], m_old[2]),
                     <<"(">> \o GazetteHead
                     \o join(<<" ", "i", " ">>, merged_refs(old_text, new_text))
                     \o <<")">>)
        ELSE old_text

\* ---------------------------------------------------------- merge_gazette

\* The first paragraph of a body whose text contains the gazette marker, 0
\* when there is none.
FirstGazette(h, d) ==
    LET hits == {i \in DOMAIN d : IsParagraph(h, d[i])
                                  /\ contains(TextOf(h, d[i]), GazetteMarker)}
    IN  IF hits = {} THEN 0 ELSE d[Min(hits)]

\* t_block.text = merged: the paragraph is cleared and gets one plain run.
SetText(p, t) == [p EXCEPT !.runs = IF t = <<>> THEN <<>> ELSE <<Run(t)>>]

\* merge_gazette with `block.text = merged`: the text is set on the paragraph
\* of the old document instead of the target paragraph.
merge_gazette_in_place(m, old_doc, gov_doc) ==
    LET block == FirstGazette(m.h, old_doc)
        q == FirstGazette(m.h, gov_doc)
        gov_line == IF q = 0 THEN <<>> ELSE TextOf(m.h, q)
        t_block == FirstGazette(m.h, m.d)
    IN  IF block = 0 \/ t_block = 0 THEN <<m, FALSE>>
        ELSE LET merged == merge_gazette_text(TextOf(m.h, block), gov_line)
                 m1 == deep_copy_paragraph(m, block, t_block)
             IN  <<[m1 EXCEPT !.h[block] = SetText(m1.h[block], merged)], TRUE>>

\* merge_gazette(old_doc, gov_doc, target_doc) on machine m, whose document is
\* the target: <<the machine afterwards, the value returned>>.  Every old
\* block with the marker looks for the same first target paragraph, so the
\* first decides.
merge_gazette(m, old_doc, gov_doc) ==
    LET block == FirstGazette(m.h, old_doc)
        q == FirstGazette(m.h, gov_doc)
        gov_line == IF q = 0 THEN <<>> ELSE TextOf(m.h, q)
        t_block == FirstGazette(m.h, m.d)
    IN  IF block = 0 \/ t_block = 0 THEN <<m, FALSE>>
        ELSE LET merged == merge_gazette_text(TextOf(m.h, block), gov_line)
                 m1 == deep_copy_paragraph(m, block, t_block)
             IN  <<[m1 EXCEPT !.h[t_block] = SetText(m1.h[t_block], merged)], TRUE>>

\* --------------------------------------------------- apply_amendment_text

\* range(3) of line 279.
Attempts == 3

\* What one call of client.chat.completions.create gives: it raises, or it
\* returns a completion whose content is a text.
ServiceError == [raised |-> TRUE, content |-> <<>>]

Completion(content) == [raised |-> FALSE, content |-> content]

\* Line 287-288: [line.strip() for line in content.strip().splitlines()
\*                if line.strip()]
ResponseLines(content) ==
    LET ls == splitlines(strip(content))
        stripped == [i \in DOMAIN ls |-> strip(ls[i])]
    IN  SelectSeq(stripped, LAMBDA line : line # <<>>)

\* Line 289 without the test for a second line.
AcceptedSingle(lines) == lines # <<>> /\ contains(lines[1], <<"*">>)

\* Line 289 without the test for the marker.
AcceptedUnmarked(lines) == lines # <<>> /\ Len(lines) > 1

\* Line 289: lines and len(lines) > 1 and '*' in lines[0]
Accepted(lines) == lines # <<>> /\ Len(lines) > 1 /\ contains(lines[1], <<"*">>)

\* One pass of the loop body of lines 279-294 for service answer r.
AttemptSucceeds(r) == ~r.raised /\ Accepted(ResponseLines(r.content))

\* A fallback that returns no line at all.
FallbackEmpty(old_text) == <<>>

\* Line 296, the fallback.
Fallback(old_text) == splitlines(old_text)

\* ---------------------------------------------------------- process_part_a

\* int(s) for a string of decimal digits.
RECURSIVE IntOfCodes(_, _)
IntOfCodes(cs, acc) ==
    IF cs = <<>> THEN acc ELSE IntOfCodes(Tail(cs), 10 * acc + (Head(cs) - 48))

int(a) == IntOfCodes(ord(a), 0)

CeaseMarker == <<"prestaju da vaze">>

\* Line 443: [p.text.strip() for p in amend_doc.paragraphs
\*            if "prestaju da vaze" in p.text]
amendments(h, amend_doc) ==
    LET ts == Texts(h, amend_doc)
        hit == SelectSeq(ts, LAMBDA t : contains(t, CeaseMarker))
    IN  [i \in DOMAIN hit |-> strip(hit[i])]

\* Lines 445-447: the iterations of the two nested loops, in order.
RECURSIVE Iterations(_)
Iterations(insts) ==
    IF insts = <<>> THEN <<>>
    ELSE LET inst == Head(insts)
             matches == CHANGE_RE_findall(inst, 1)
         IN  [k \in DOMAIN matches |->
                 [inst |-> inst, article_num |-> matches[k][1],
                  stav_num |-> matches[k][2]]]
             \o Iterations(Tail(insts))

\* Line 448: aid = f"Clan {article_num}"
Aid(article_num) == <<"Clan", " ", article_num>>

\* Line 451: '\n'.join(updated_doc.paragraphs[k].text for k in range(s, e));
\* defined when e <= len(updated_doc.paragraphs).
OldLines(h, d, s, e) ==
    join(<<"\n">>, [k \in 1..(e - s) |-> Texts(h, d)[s + k]])

\* Lines 455-456: the paragraphs with indices s..e-1 (of doc.paragraphs) are
\* taken out of the body, last first.
RemoveSpan(h, d, s, e) ==
    LET gone == {paragraphs(h, d)[k + 1] : k \in s..(e - 1)}
    IN  SelectSeq(d, LAMBDA id : id \notin gone)

\* Lines 465-470 on the element of new_p.
TitleFormat(p) ==
    [p EXCEPT !.align = set_alignment(p.align, "center"),
              !.runs = [i \in DOMAIN p.runs |->
                          [p.runs[i] EXCEPT !.bold = "True", !.font = "Arial",
                                            !.size = "12"]]]

\* Lines 459-470: the loop over enumerate(new_lines) from index i on.  m is
\* the machine of the output document, orig_doc the body of the original.
RECURSIVE InsertLines(_, _, _, _, _)
InsertLines(m, orig_doc, lines, s, i) ==
    IF i >= Len(lines) THEN m
    ELSE LET line == lines[i + 1]
             m1 == add_paragraph(m, line)
             new_p == Len(m1.h)
             original_format_idx == s + i
             m2 == IF original_format_idx < Len(paragraphs(m1.h, orig_doc))
                   THEN deep_copy_paragraph(m1,
                            paragraphs(m1.h, orig_doc)[original_format_idx + 1], new_p)
                   ELSE m1
             m3 == IF ARTICLE_RE(line)
                   THEN [m2 EXCEPT !.h[new_p] = TitleFormat(m2.h[new_p])]
                   ELSE m2
         IN  InsertLines(m3, orig_doc, lines, s, i + 1)

\* ------------------------------------------- difflib.SequenceMatcher(None, a, b)

\* autojunk: with len(b) >= 200 an element occurring more than
\* len(b) // 100 + 1 times in b is "popular" and left out of b2j.
AutoJunkMin == 200

Popular(b) ==
    IF Len(b) >= AutoJunkMin
    THEN {x \in Range(b) :
            Cardinality({j \in DOMAIN b : b[j] = x}) > (Len(b) \div 100) + 1}
    ELSE {}

\* The k find_longest_match computes for (i, j), all indices 0-based: the
\* length of the run of pairs a[i'] == b[j'], b[j'] in b2j, that ends at
\* (i, j) and stays inside [alo, ahi) x [blo, bhi).
RECURSIVE RunEnding(_, _, _, _, _, _)
RunEnding(a, b, alo, blo, i, j) ==
    IF i < alo \/ j < blo THEN 0
    ELSE IF a[i + 1] # b[j + 1] \/ b[j + 1] \in Popular(b) THEN 0
    ELSE 1 + RunEnding(a, b, alo, blo, i - 1, j - 1)

\* The first loop after the scan: extend the match to the left.
RECURSIVE ExtendLeft(_, _, _, _, _)
ExtendLeft(a, b, alo, blo, m) ==
    IF m[1] > alo /\ m[2] > blo /\ a[m[1]] = b[m[2]]
    THEN ExtendLeft(a, b, alo, blo, <<m[1] - 1, m[2] - 1, m[3] + 1>>)
    ELSE m

\* The second loop: extend the match to the right.
RECURSIVE ExtendRight(_, _, _, _, _)
ExtendRight(a, b, ahi, bhi, m) ==
    IF m[1] + m[3] < ahi /\ m[2] + m[3] < bhi
       /\ a[m[1] + m[3] + 1] = b[m[2] + m[3] + 1]
    THEN ExtendRight(a, b, ahi, bhi, <<m[1], m[2], m[3] + 1>>)
    ELSE m

\* find_longest_match(alo, ahi, blo, bhi): <<besti, bestj, bestsize>>.  The
\* scan keeps the first (i, j), rows then columns ascending, whose k exceeds
\* every k before it; isjunk is None, so the two junk loops do nothing.
find_longest_match(a, b, alo, ahi, blo, bhi) ==
    LET ends == {<<i, j>> \in (alo..(ahi - 1)) \X (blo..(bhi - 1)) :
                    RunEnding(a, b, alo, blo, i, j) > 0}
        k(e) == RunEnding(a, b, alo, blo, e[1], e[2])
        before(e, f) == e[1] < f[1] \/ (e[1] = f[1] /\ e[2] < f[2])
        scan == IF ends = {} THEN <<alo, blo, 0>>
                ELSE LET bestsize == Max({k(e) : e \in ends})
                         e == CHOOSE e \in ends :
                                /\ k(e) = bestsize
                                /\ \A f \in ends : k(f) = bestsize /\ f # e
                                                   => before(e, f)
                     IN  <<e[1] - bestsize + 1, e[2] - bestsize + 1, bestsize>>
    IN  ExtendRight(a, b, ahi, bhi, ExtendLeft(a, b, alo, blo, scan))

\* The blocks the queue loop of get_matching_blocks appends, started with
\* (alo, ahi, blo, bhi) on the queue.
RECURSIVE QueueBlocks(_, _, _, _, _, _)
QueueBlocks(a, b, alo, ahi, blo, bhi) ==
    LET x == find_longest_match(a, b, alo, ahi, blo, bhi)
        i == x[1]
        j == x[2]
        k == x[3]
    IN  IF k = 0 THEN {}
        ELSE {x}
             \cup (IF alo < i /\ blo < j
                   THEN QueueBlocks(a, b, alo, i, blo, j) ELSE {})
             \cup (IF i + k < ahi /\ j + k < bhi
                   THEN QueueBlocks(a, b, i + k, ahi, j + k, bhi) ELSE {})

\* matching_blocks.sort(): the blocks lie on disjoint rows, so they are in
\* order of i.
RECURSIVE SortBlocks(_)
SortBlocks(S) ==
    IF S = {} THEN <<>>
    ELSE LET x == CHOOSE x \in S : \A y \in S : x[1] <= y[1]
         IN  <<x>> \o SortBlocks(S \ {x})

\* The loop that collapses adjacent blocks, with (i1, j1, k1) pending.
RECURSIVE Collapse(_, _, _)
Collapse(blocks, cur1, non_adjacent) ==
    IF blocks = <<>>
    THEN IF cur1[3] # 0 THEN Append(non_adjacent, cur1) ELSE non_adjacent
    ELSE LET x == Head(blocks)
         IN  IF cur1[1] + cur1[3] = x[1] /\ cur1[2] + cur1[3] = x[2]
             THEN Collapse(Tail(blocks), <<cur1[1], cur1[2], cur1[3] + x[3]>>,
                           non_adjacent)
             ELSE Collapse(Tail(blocks), x,
                           IF cur1[3] # 0 THEN Append(non_adjacent, cur1)
                           ELSE non_adjacent)

\* get_matching_blocks without the closing (la, lb, 0) block.
get_matching_blocks_open(a, b) ==
    Collapse(SortBlocks(QueueBlocks(a, b, 0, Len(a), 0, Len(b))), <<0, 0, 0>>, <<>>)

get_matching_blocks(a, b) ==
    Append(Collapse(SortBlocks(QueueBlocks(a, b, 0, Len(a), 0, Len(b))),
                    <<0, 0, 0>>, <<>>),
           <<Len(a), Len(b), 0>>)

\* The loop of get_opcodes over the matching blocks, at (i, j).
RECURSIVE OpcodeLoop(_, _, _, _)
OpcodeLoop(blocks, i, j, answer) ==
    IF blocks = <<>> THEN answer
    ELSE LET ai == Head(blocks)[1]
             bj == Head(blocks)[2]
             size == Head(blocks)[3]
             tag == IF i < ai /\ j < bj THEN "replace"
                    ELSE IF i < ai THEN "delete"
                    ELSE IF j < bj THEN "insert"
                    ELSE ""
             a1 == IF tag # ""
                   THEN Append(answer, [tag |-> tag, i1 |-> i, i2 |-> ai,
                                        j1 |-> j, j2 |-> bj])
                   ELSE answer
             a2 == IF size # 0
                   THEN Append(a1, [tag |-> "equal", i1 |-> ai, i2 |-> ai + size,
                                    j1 |-> bj, j2 |-> bj + size])
                   ELSE a1
         IN  OpcodeLoop(Tail(blocks), ai + size, bj + size, a2)

get_opcodes(a, b) == OpcodeLoop(get_matching_blocks(a, b), 0, 0, <<>>)

\* ---------------------------------------------------- extract_amending_ref

\* str.upper() of one atom.
upper_atom(a) ==
    CASE a \in ClanWords       -> "CLAN"
      [] a = "Sl. glasnik RS"  -> "SL. GLASNIK RS"
      [] a = "Zakon o"         -> "ZAKON O"
      [] a = "Zakona o racunovodstvu" -> "ZAKONA O RACUNOVODSTVU"
      [] a = "br."             -> "BR."
      [] a = "i"               -> "I"
      [] a = "dr. zakon"       -> "DR. ZAKON"
      [] a = "clana"           -> "CLANA"
      [] a = "stav"            -> "STAV"
      [] a = "prestaju da vaze" -> "PRESTAJU DA VAZE"
      [] a = "text A"          -> "TEXT A"
      [] a = "text B"          -> "TEXT B"
      [] a = "text C"          -> "TEXT C"
      [] OTHER                 -> a

upper(t) == [i \in DOMAIN t |-> upper_atom(t[i])]

\* The literal of line 313.
FallbackRef ==
    <<"[", "CLAN 23 STAV 2 ZAKONA O ELEKTRONSKOM FAKTURISANJU (",
      "\"", "SL. GLASNIK RS", "\"", ",", " ", "BR.", " ", "44", "/", "2021", ")", "]">>

\* The loop of lines 302-310 over the remaining blocks: every paragraph that
\* passes a test overwrites what an earlier one set.
RECURSIVE RefLoop(_, _, _)
RefLoop(h, blocks, acc) ==
    IF blocks = <<>> THEN acc
    ELSE IF ~IsParagraph(h, Head(blocks)) THEN RefLoop(h, Tail(blocks), acc)
    ELSE LET t == strip(TextOf(h, Head(blocks)))
         IN  RefLoop(h, Tail(blocks),
                [article  |-> IF ARTICLE_RE(t) THEN upper(t) ELSE acc.article,
                 law_name |-> IF contains(upper(t), <<"ZAKON O">>) THEN upper(t)
                              ELSE acc.law_name,
                 gazette  |-> IF contains(upper(t), <<"SL. GLASNIK RS">>) THEN upper(t)
                              ELSE acc.gazette])

extract_amending_ref(h, gov_doc) ==
    LET r == RefLoop(h, gov_doc, [article |-> <<>>, law_name |-> <<>>, gazette |-> <<>>])
    IN  IF r.article # <<>> /\ r.law_name # <<>> /\ r.gazette # <<>>
        THEN <<"[">> \o r.article \o <<" ">> \o r.law_name \o <<" ">> \o r.gazette
             \o <<"]">>
        ELSE FallbackRef

\* ---------------------------------------------------- add_explanatory_table

ExplanatoryRun(t, color, shading) ==
    [text |-> <<t>>, bold |-> "True", font |-> "Arial", size |-> None,
     color |-> color, shd |-> set_shading(<<>>, shading)]

\* The two one-cell tables add_explanatory_table appends.  A fresh cell holds
\* one empty paragraph; the text goes into a paragraph added after it.
ExplanatoryTable1 ==
    Table(<<[shd |-> <<"CCCCCC">>,
             paras |-> <<NewParagraph(<<>>),
                [Paragraph(<<ExplanatoryRun("Radi lakseg sagledavanja", None, None),
                             ExplanatoryRun("zelenom", None, "33FF33"),
                             ExplanatoryRun(", prethodna ", None, None),
                             ExplanatoryRun("crvenom", "FF0000", None),
                             ExplanatoryRun(" bojom", None, None),
                             ExplanatoryRun("Tekst dokumenta", None, None)>>)
                 EXCEPT !.align = "center",
                        !.spacing = [space_before |-> "5.0", space_after |-> "5.0",
                                     line_spacing |-> "1.0"]]>>]>>)

ExplanatoryTable2 ==
    Table(<<[shd |-> <<"000000">>,
             paras |-> <<NewParagraph(<<>>),
                [Paragraph(<<[text |-> <<"Propis - analiticki prikaz promena">>,
                              bold |-> "True", font |-> "Arial", size |-> "13",
                              color |-> "FFE8BF", shd |-> <<>>]>>)
                 EXCEPT !.align = "center",
                        !.spacing = [space_before |-> None, space_after |-> None,
                                     line_spacing |-> "1.1"]]>>]>>)

add_explanatory_table(m) == AddElement(AddElement(m, ExplanatoryTable1), ExplanatoryTable2)

\* ---------------------------------------------------------- process_part_b

\* RGBColor(255, 0, 0) and RGBColor(0, 204, 51).
Removed == "FF0000"

Added == "00CC33"

TableKey == <<"TABLE">>

\* Lines 501-507: the comparison key of an old-side block.
OrigKey(h, b) == IF IsParagraph(h, b) THEN strip(TextOf(h, b)) ELSE TableKey

\* A new-side key with its own token for tables.
NewKeyOwnToken(h, b) ==
    IF IsParagraph(h, b) THEN replace(strip(TextOf(h, b)), <<"*">>, <<>>)
    ELSE <<"TABLE", "new">>

\* Lines 508-515: the comparison key of a new-side block.
NewKey(h, b) ==
    IF IsParagraph(h, b) THEN replace(strip(TextOf(h, b)), <<"*">>, <<>>) ELSE TableKey

orig_texts(h, orig_blocks) == [i \in DOMAIN orig_blocks |-> OrigKey(h, orig_blocks[i])]

new_texts(h, new_blocks) == [i \in DOMAIN new_blocks |-> NewKey(h, new_blocks[i])]

\* The body of the loops of the equal branch for one block.
RenderEqual(m, block) ==
    IF IsParagraph(m.h, block)
    THEN deep_copy_paragraph(add_paragraph(m, <<>>), block, Len(m.h) + 1)
    ELSE deep_copy_table(m, block, None)

\* The delete / insert / replace branches without the colouring of the
\* paragraph's runs and with no colour handed to deep_copy_table.
RenderChangedPlain(m, block, color) ==
    IF IsParagraph(m.h, block)
    THEN LET m1 == add_paragraph(m, <<"[">> \o TextOf(m.h, block) \o <<"]">>)
         IN  deep_copy_paragraph(m1, block, Len(m1.h))
    ELSE deep_copy_table(m, block, None)

\* The body of the loops of the delete / insert / replace branches for one
\* block: the paragraph is created with the bracketed text, then
\* deep_copy_paragraph runs on it, then its runs are coloured.
RenderChanged(m, block, color) ==
    IF IsParagraph(m.h, block)
    THEN LET m1 == add_paragraph(m, <<"[">> \o TextOf(m.h, block) \o <<"]">>)
             p == Len(m1.h)
             m2 == deep_copy_paragraph(m1, block, p)
         IN  [m2 EXCEPT !.h[p] = ColorRuns(m2.h[p], color)]
    ELSE deep_copy_table(m, block, color)

RECURSIVE RenderEach(_, _, _)
RenderEach(m, blocks, color) ==
    IF blocks = <<>> THEN m
    ELSE RenderEach(IF color = None THEN RenderEqual(m, Head(blocks))
                    ELSE RenderChanged(m, Head(blocks), color),
                    Tail(blocks), color)

\* blocks[lo:hi], 0-based half-open.
Slice(blocks, lo, hi) == SubSeq(blocks, lo + 1, hi)

\* The loop of line 519 with a replace branch that renders the new range
\* only.
RenderOpcodeNewOnly(m, op, orig_blocks, new_blocks) ==
    CASE op.tag = "equal" ->
            RenderEach(m, Slice(new_blocks, op.j1, op.j1 + (op.i2 - op.i1)), None)
      [] op.tag = "delete" ->
            RenderEach(m, Slice(orig_blocks, op.i1, op.i2), Removed)
      [] op.tag = "insert" ->
            RenderEach(m, Slice(new_blocks, op.j1, op.j2), Added)
      [] op.tag = "replace" ->
            RenderEach(m, Slice(new_blocks, op.j1, op.j2), Added)

\* One iteration of the loop of line 519.
RenderOpcode(m, op, orig_blocks, new_blocks) ==
    CASE op.tag = "equal" ->
            RenderEach(m, Slice(new_blocks, op.j1, op.j1 + (op.i2 - op.i1)), None)
      [] op.tag = "delete" ->
            RenderEach(m, Slice(orig_blocks, op.i1, op.i2), Removed)
      [] op.tag = "insert" ->
            RenderEach(m, Slice(new_blocks, op.j1, op.j2), Added)
      [] op.tag = "replace" ->
            RenderEach(RenderEach(m, Slice(orig_blocks, op.i1, op.i2), Removed),
                       Slice(new_blocks, op.j1, op.j2), Added)

RECURSIVE RenderOpcodes(_, _, _, _)
RenderOpcodes(m, ops, orig_blocks, new_blocks) ==
    IF ops = <<>> THEN m
    ELSE RenderOpcodes(RenderOpcode(m, Head(ops), orig_blocks, new_blocks),
                       Tail(ops), orig_blocks, new_blocks)

\* Lines 572-574: the indices (0-based) of the flagged headers, ascending.
insert_positions(h, blocks) ==
    SelectSeq([i \in DOMAIN blocks |-> i - 1],
              LAMBDA idx : /\ IsParagraph(h, blocks[idx + 1])
                           /\ ARTICLE_RE(strip(TextOf(h, blocks[idx + 1])))
                           /\ contains(TextOf(h, blocks[idx + 1]), <<"*">>))

\* Lines 576-583 (st_ui.py 218-224): the reference paragraph.  Only the
\* desktop front end sets its spacing.
RefParagraph(ref, front) ==
    [Paragraph(<<[text |-> ref, bold |-> "True", font |-> "Arial", size |-> "12",
                  color |-> Added, shd |-> <<>>]>>)
     EXCEPT !.align = set_alignment(None, "center"),
            !.spacing = IF front = "tk"
                        THEN set_spacing(NoSpacing,
                                [space_before |-> "12.0", space_after |-> "6.0",
                                 line_spacing |-> "1.0"])
                        ELSE NoSpacing]

\* body.insert(pos, element) for an element that is the last block of the
\* body: it moves in front of the child at index pos (0-based).
MoveLast(d, pos) == InsertAt(SubSeq(d, 1, Len(d) - 1), pos + 1, d[Len(d)])

\* The loop of lines 575-584 without reversed(): lowest position first.
RECURSIVE InsertRefsAscending(_, _, _, _)
InsertRefsAscending(m, positions, ref, front) ==
    IF positions = <<>> THEN m
    ELSE LET pos == Head(positions)
             m1 == AddElement(m, RefParagraph(ref, front))
         IN  InsertRefsAscending([m1 EXCEPT !.d = MoveLast(m1.d, pos)],
                                 Tail(positions), ref, front)

\* Lines 575-584: for pos in reversed(insert_positions), positions given in
\* ascending order.
RECURSIVE InsertRefs(_, _, _, _)
InsertRefs(m, positions, ref, front) ==
    IF positions = <<>> THEN m
    ELSE LET pos == positions[Len(positions)]
             m1 == AddElement(m, RefParagraph(ref, front))
         IN  InsertRefs([m1 EXCEPT !.d = MoveLast(m1.d, pos)],
                        SubSeq(positions, 1, Len(positions) - 1), ref, front)

\* Lines 587-593: the index (0-based) of the first paragraph whose stripped
\* text is "Clan 1", -1 when there is none.
SpacerAnchor(h, blocks) ==
    LET hits == {i \in DOMAIN blocks : /\ IsParagraph(h, blocks[i])
                                       /\ strip(TextOf(h, blocks[i])) = <<"Clan", " ", "1">>}
    IN  IF hits = {} THEN -1 ELSE Min(hits) - 1

\* Lines 590-592.
InsertSpacer(m, idx) ==
    LET m1 == add_paragraph(m, <<".">>)
        spacer == Len(m1.h)
        m2 == deep_copy_paragraph(m1, m.d[idx + 1], spacer)
    IN  [m2 EXCEPT !.d = MoveLast(m2.d, idx + 2)]

\* --------------------------------------------------- the text-transform service

\* What the prompt of lines 262-277 asks for: the header with '*' appended,
\* the stav-th line after it left out, the other lines as they are.
ConformingLines(old_text, stav) ==
    LET ls == split(old_text, <<"\n">>)
        body == Tail(ls)
    IN  <<strip(Head(ls)) \o <<"*">>>>
        \o SubSeq(body, 1, stav - 1) \o SubSeq(body, stav + 1, Len(body))

\* The answers the service may give to one call: it raises; or it returns
\* the text the prompt asks for (when the article has a stav of that number),
\* a single line, the old text as it was, or the old text with a marked
\* header and nothing removed.
Responses(old_text, stav) ==
    LET ls == split(old_text, <<"\n">>)
    IN  {ServiceError,
         Completion(<<"Clan", " ", "1", "*">>),
         Completion(old_text),
         Completion(join(<<"\n">>, <<strip(Head(ls)) \o <<"*">>>> \o Tail(ls)))}
        \cup (IF stav \in 1..(Len(ls) - 1)
              THEN {Completion(join(<<"\n">>, ConformingLines(old_text, stav)))}
              ELSE {})

\* ------------------------------------------------------------ input files

Header(t) ==
    [Paragraph(<<[Run(t) EXCEPT !.bold = "True", !.font = "Arial", !.size = "12"]>>)
     EXCEPT !.align = "center"]

Clan1 == Header(<<"Clan", " ", "1">>)

Clan2 == Header(<<"Clan", " ", "2">>)

Clan2Star == Header(<<"Clan", " ", "2", "*">>)

TextA == [Paragraph(<<[Run(<<"text A">>) EXCEPT !.color = "0000FF"]>>)
          EXCEPT !.align = "justify", !.shd = <<"FFFF00">>]

TextB == Paragraph(<<Run(<<"text B">>)>>)

Blank == Paragraph(<<>>)

ATable == Table(<<[shd |-> <<"DDDDDD">>, paras |-> <<Paragraph(<<Run(<<"cell">>)>>)>>]>>)

\* A citation paragraph: ... ("Sl. glasnik RS", br. <refs>)
Citation(refs) == Paragraph(<<Run(<<"Zakon o", " ", "(">> \o GazetteHead \o refs \o <<")">>)>>)

Ref44 == <<"44", "/", "2021">>

Ref95 == <<"95", "/", "2022">>

Ref9 == <<"9", "/", "2020">>

\* A repeal instruction for stav `stav` of article `article`.
Instruction(article, stav) ==
    Paragraph(<<Run(<<"clana", " ", article, ".", " ", "stav", " ", stav, ".", " ",
                      "Zakona o racunovodstvu", " ", "prestaju da vaze">>)>>)

\* The blocks an original document is drawn from (revision pipeline).
OrigBlocks == {Clan1, Clan2, TextA, TextB, ATable, Citation(Ref44)}

\* The blocks an amendment document is drawn from (revision pipeline).
GovBlocks == {Instruction("1", "2"), Instruction("2", "1"), Citation(Ref95)}

\* Longest body of an amendment document drawn by Init.
MaxGov == 2

\* Longest bodies of the old and the new document drawn by InitB.
MaxOld == 2

MaxNew == 2

\* The blocks the two documents of the comparison pipeline are drawn from.
DiffBlocks == {Clan1, Clan2Star, TextA, ATable}

\* The amendment documents of the comparison pipeline: an empty one, and one
\* with a header, a statute name and a citation.
RefDocs == {<<>>, <<Clan1, Paragraph(<<Run(<<"Zakon o", " ", "text A">>)>>), Citation(Ref95)>>}

Ids(from, n) == [i \in 1..n |-> from + i]

\* --------------------------------------------------------------- Init

\* The desktop or the web front end has started and the user has chosen the
\* files: od, gd and nd are the bodies of the original, the amendment and the
\* new-version document (has_new = FALSE: no new-version file chosen).
Loaded(front, od, gd, nd, has_new) ==
    /\ ui = front
    /\ heap = od \o gd \o nd
    /\ orig = Ids(0, Len(od))
    /\ gov = Ids(Len(od), Len(gd))
    /\ new_d = IF has_new THEN Ids(Len(od) + Len(gd), Len(nd)) ELSE NoDocument
    /\ updated_doc = NoDocument
    /\ diff_doc = NoDocument
    /\ pc = "idle"
    /\ articles = EmptyDict
    /\ todo = <<>>
    /\ cur = None
    /\ attempt = 0
    /\ calls = 0
    /\ new_lines = <<>>
    /\ from_service = FALSE
    /\ opcodes = <<>>
    /\ diff_blocks = <<>>
    /\ input = None
    /\ result = None

InitA ==
    \E front \in {"tk", "st"}, od \in SeqUpTo(OrigBlocks, MaxBlocks),
       gd \in SeqUpTo(GovBlocks, MaxGov) :
        Loaded(front, od, gd, <<>>, FALSE)

InitB ==
    \E front \in {"tk", "st"}, od \in SeqUpTo(DiffBlocks, MaxOld),
       nd \in SeqUpTo(DiffBlocks, MaxNew), gd \in RefDocs :
        Loaded(front, od, gd, nd, TRUE)

\* ------------------------------------------------------- process_part_a

\* Lines 423-443 (st_ui.py 33-69): the output document is created, the
\* original cloned into it, the citation merged, the index and the
\* instructions computed.
ProcessPartA_Start ==
    /\ pc = "idle"
    /\ LET m1 == CloneBlocks([h |-> heap, d |-> <<>>], orig)
           m2 == merge_gazette(m1, orig, gov)[1]
       IN  /\ heap' = m2.h
           /\ updated_doc' = m2.d
           /\ articles' = extract_articles(m2.h, m2.d)
           /\ todo' = Iterations(amendments(m2.h, gov))
    /\ pc' = "A_loop"
    /\ UNCHANGED <<ui, orig, gov, new_d, diff_doc, cur, attempt, calls, new_lines,
                   from_service, opcodes, diff_blocks, input, result>>

\* The same step with articles[aid] looked up without the test of line 449:
\* an id that is no key raises KeyError.
ProcessPartA_IterateKeyError ==
    /\ pc = "A_loop"
    /\ todo # <<>>
    /\ todo' = Tail(todo)
    /\ LET it == Head(todo)
           aid == Aid(it.article_num)
       IN  IF aid \notin DOMAIN articles
           THEN /\ pc' = "raised"
                /\ updated_doc' = IF ui = "st" THEN NoDocument ELSE updated_doc
                /\ UNCHANGED <<cur, attempt, calls>>
           ELSE LET s == articles[aid][1]
                    e == articles[aid][2]
                IN  IF e > Len(paragraphs(heap, updated_doc))
                    THEN /\ pc' = "raised"
                         /\ updated_doc' = IF ui = "st" THEN NoDocument ELSE updated_doc
                         /\ UNCHANGED <<cur, attempt, calls>>
                    ELSE /\ pc' = "A_call"
                         /\ cur' = [inst |-> it.inst, stav |-> int(it.stav_num),
                                    s |-> s, e |-> e,
                                    old_text |-> OldLines(heap, updated_doc, s, e)]
                         /\ attempt' = 0
                         /\ calls' = 0
                         /\ UNCHANGED updated_doc
    /\ UNCHANGED <<ui, heap, orig, gov, new_d, diff_doc, articles, new_lines,
                   from_service, opcodes, diff_blocks, input, result>>

\* Lines 445-452 up to the first service call: the next (inst, match) of the
\* loops.  An article id that is no key of the index skips the iteration; a
\* span that reaches past doc.paragraphs raises IndexError, which ends the
\* desktop handler and makes the web handler return None.
ProcessPartA_Iterate ==
    /\ pc = "A_loop"
    /\ todo # <<>>
    /\ todo' = Tail(todo)
    /\ LET it == Head(todo)
           aid == Aid(it.article_num)
       IN  IF aid \notin DOMAIN articles
           THEN UNCHANGED <<pc, cur, attempt, calls, updated_doc>>
           ELSE LET s == articles[aid][1]
                    e == articles[aid][2]
                IN  IF e > Len(paragraphs(heap, updated_doc))
                    THEN /\ pc' = "raised"
                         /\ updated_doc' = IF ui = "st" THEN NoDocument ELSE updated_doc
                         /\ UNCHANGED <<cur, attempt, calls>>
                    ELSE /\ pc' = "A_call"
                         /\ cur' = [inst |-> it.inst, stav |-> int(it.stav_num),
                                    s |-> s, e |-> e,
                                    old_text |-> OldLines(heap, updated_doc, s, e)]
                         /\ attempt' = 0
                         /\ calls' = 0
                         /\ UNCHANGED updated_doc
    /\ UNCHANGED <<ui, heap, orig, gov, new_d, diff_doc, articles, new_lines,
                   from_service, opcodes, diff_blocks, input, result>>

\* apply_amendment_text, one pass of the loop of lines 279-294 with the
\* service answering r; the third failure falls through to lines 295-296.
ServiceAnswers ==
    /\ pc = "A_call"
    /\ attempt < Attempts
    /\ \E r \in Responses(cur.old_text, cur.stav) :
        /\ calls' = calls + 1
        /\ IF AttemptSucceeds(r)
           THEN /\ new_lines' = ResponseLines(r.content)
                /\ from_service' = TRUE
                /\ pc' = "A_splice"
                /\ UNCHANGED attempt
           ELSE /\ attempt' = attempt + 1
                /\ IF attempt + 1 = Attempts
                   THEN /\ new_lines' = Fallback(cur.old_text)
                        /\ from_service' = FALSE
                        /\ pc' = "A_splice"
                   ELSE UNCHANGED <<new_lines, from_service, pc>>
    /\ UNCHANGED <<ui, heap, orig, gov, new_d, updated_doc, diff_doc, articles, todo,
                   cur, opcodes, diff_blocks, input, result>>

\* Lines 454-470 (st_ui.py 80-97): the old paragraphs are removed and the
\* new lines added.
ProcessPartA_Splice ==
    /\ pc = "A_splice"
    /\ LET m == InsertLines([h |-> heap,
                             d |-> RemoveSpan(heap, updated_doc, cur.s, cur.e)],
                            orig, new_lines, cur.s, 0)
       IN  /\ heap' = m.h
           /\ updated_doc' = m.d
    /\ pc' = "A_loop"
    /\ UNCHANGED <<ui, orig, gov, new_d, diff_doc, articles, todo, cur, attempt,
                   calls, new_lines, from_service, opcodes, diff_blocks, input, result>>

\* Lines 472-473 (st_ui.py 99-104): the loops are over.
ProcessPartA_Return ==
    /\ pc = "A_loop"
    /\ todo = <<>>
    /\ pc' = "done"
    /\ UNCHANGED <<ui, heap, orig, gov, new_d, updated_doc, diff_doc, articles, todo,
                   cur, attempt, calls, new_lines, from_service, opcodes, diff_blocks,
                   input, result>>

NextA ==
    \/ ProcessPartA_Start
    \/ ProcessPartA_Iterate
    \/ ServiceAnswers
    \/ ProcessPartA_Splice
    \/ ProcessPartA_Return

\* ------------------------------------------------------- process_part_b

\* Lines 475-566 (st_ui.py 110-206): the explanatory tables, the opcodes and
\* the rendering of every region.
ProcessPartB_Render ==
    /\ pc = "idle"
    /\ new_d # NoDocument
    /\ LET ops == get_opcodes(orig_texts(heap, orig), new_texts(heap, new_d))
           m == RenderOpcodes(add_explanatory_table([h |-> heap, d |-> <<>>]),
                              ops, orig, new_d)
       IN  /\ opcodes' = ops
           /\ heap' = m.h
           /\ diff_doc' = m.d
           /\ diff_blocks' = m.d
    /\ pc' = "B_annotate"
    /\ UNCHANGED <<ui, orig, gov, new_d, updated_doc, articles, todo, cur, attempt,
                   calls, new_lines, from_service, input, result>>

\* Lines 568-584 (st_ui.py 208-225): the annotation pass.
ProcessPartB_Annotate ==
    /\ pc = "B_annotate"
    /\ LET m == InsertRefs([h |-> heap, d |-> diff_doc],
                           insert_positions(heap, diff_blocks),
                           extract_amending_ref(heap, gov), ui)
       IN  /\ heap' = m.h
           /\ diff_doc' = m.d
    /\ pc' = IF ui = "tk" THEN "B_spacer" ELSE "done"
    /\ UNCHANGED <<ui, orig, gov, new_d, updated_doc, articles, todo, cur, attempt,
                   calls, new_lines, from_service, opcodes, diff_blocks, input, result>>

\* Lines 586-596, desktop front end only: the spacer after "Clan 1".
ProcessPartB_Spacer ==
    /\ pc = "B_spacer"
    /\ LET idx == SpacerAnchor(heap, diff_doc)
           m == IF idx >= 0 THEN InsertSpacer([h |-> heap, d |-> diff_doc], idx)
                ELSE [h |-> heap, d |-> diff_doc]
       IN  /\ heap' = m.h
           /\ diff_doc' = m.d
    /\ pc' = "done"
    /\ UNCHANGED <<ui, orig, gov, new_d, updated_doc, articles, todo, cur, attempt,
                   calls, new_lines, from_service, opcodes, diff_blocks, input, result>>

NextB ==
    \/ ProcessPartB_Render
    \/ ProcessPartB_Annotate
    \/ ProcessPartB_Spacer

SpecA == InitA /\ [][NextA]_vars

SpecB == InitB /\ [][NextB]_vars

\* Either pipeline, from either set of chosen files.
Init == InitA \/ InitB

Next == NextA \/ NextB

Spec == Init /\ [][Next]_vars

\* -------------------------------------- merge_gazette_text on its own

\* The citation tokens the two texts are drawn from: three NN/YYYY tokens, a
\* free-text token and an all-digit token.
RefTokens == {Ref44, Ref95, Ref9, <<"dr. zakon">>, <<"44">>}

\* Longest citation list drawn by InitGazette.
MaxRefs == 2

\* A text with the marker and no citation list.
MarkerOnly == <<"Zakon o", " ", "Sl. glasnik RS">>

CitationTexts ==
    {text(Citation(join(<<" ", "i", " ">>, l)).runs) :
        l \in SeqUpTo(RefTokens, MaxRefs) \ {<<>>}}
    \cup {MarkerOnly}

InitGazette ==
    /\ \E old_text \in CitationTexts, new_text \in CitationTexts :
          input = [old_text |-> old_text, new_text |-> new_text]
    /\ ui = "tk"
    /\ heap = <<>>
    /\ orig = <<>>
    /\ gov = <<>>
    /\ new_d = NoDocument
    /\ updated_doc = NoDocument
    /\ diff_doc = NoDocument
    /\ pc = "merge_gazette_text"
    /\ articles = EmptyDict
    /\ todo = <<>>
    /\ cur = None
    /\ attempt = 0
    /\ calls = 0
    /\ new_lines = <<>>
    /\ from_service = FALSE
    /\ opcodes = <<>>
    /\ diff_blocks = <<>>
    /\ result = <<>>

MergeGazetteText ==
    /\ pc = "merge_gazette_text"
    /\ result' = merge_gazette_text(input.old_text, input.new_text)
    /\ pc' = "returned"
    /\ UNCHANGED <<ui, heap, orig, gov, new_d, updated_doc, diff_doc, articles, todo,
                   cur, attempt, calls, new_lines, from_service, opcodes, diff_blocks,
                   input>>

SpecGazette == InitGazette /\ [][MergeGazetteText]_vars

\* ================================================================ properties

\* ---------------------------------------------------- C1, revision pipeline

\* The run C1 describes: paragraphs "Clan 1", "text A", "text B", one
\* instruction repealing stav 2 of article 1, and a service whose answer was
\* accepted as the lines "Clan 1*", "text A".
C1_Run ==
    /\ pc = "done"
    /\ Len(orig) = 3
    /\ Texts(heap, orig) = << <<"Clan", " ", "1">>, <<"text A">>, <<"text B">> >>
    /\ Len(gov) = 1
    /\ heap[gov[1]] = Instruction("1", "2")
    /\ from_service
    /\ new_lines = << <<"Clan", " ", "1", "*">>, <<"text A">> >>

\* C1: at the end of the run C1_Run describes, the paragraph texts of the
\* output document are exactly "Clan 1*", "text A".
C1_EndToEndRevision ==
    C1_Run => Texts(heap, updated_doc) = << <<"Clan", " ", "1", "*">>, <<"text A">> >>

\* ------------------------------------------------ C2, C3, apply_amendment_text

\* apply_amendment_text has just returned lines obtained from the service.
ReturnedFromService == pc = "A_splice" /\ from_service

\* The instruction names a stav the article has.
ValidInstruction == cur.stav \in 1..(Len(split(cur.old_text, <<"\n">>)) - 1)

\* C2 as stated: lines returned from the service for a valid instruction are
\* one body line fewer than the article text, and the first line is the
\* original header line followed by '*'.
C2_AmendmentRemoval ==
    ReturnedFromService /\ ValidInstruction =>
        /\ Len(new_lines) = Len(split(cur.old_text, <<"\n">>)) - 1
        /\ new_lines[1] = Head(split(cur.old_text, <<"\n">>)) \o <<"*">>

\* C2, amended: lines returned from the service are at least two, each is
\* non-empty and trimmed, and the first contains '*'.
C2_AcceptedLines ==
    ReturnedFromService =>
        /\ Len(new_lines) >= 2
        /\ contains(new_lines[1], <<"*">>)
        /\ \A k \in DOMAIN new_lines :
              new_lines[k] # <<>> /\ strip(new_lines[k]) = new_lines[k]

\* The service gave the answer the prompt asks for and it was returned.
C2_Witness ==
    /\ ReturnedFromService
    /\ ValidInstruction
    /\ new_lines = ConformingLines(cur.old_text, cur.stav)

\* C3: while apply_amendment_text runs, every answer of the service counts
\* as one call and nothing is raised; when the lines returned are not from
\* the service, exactly 3 calls were made and the lines are those of the
\* original text; the loop goes on only while fewer than 3 calls were made.
C3_FallbackSafety ==
    [][pc = "A_call" =>
          /\ pc' \in {"A_call", "A_splice"}
          /\ calls' = calls + 1
          /\ (pc' = "A_call" => calls' < 3)
          /\ (pc' = "A_splice" /\ ~from_service' =>
                 /\ calls' = 3
                 /\ new_lines' = splitlines(cur.old_text)
                 /\ updated_doc' = updated_doc)]_vars

\* Three calls failed and the fallback lines were returned.
C3_Witness ==
    /\ pc = "A_splice"
    /\ ~from_service
    /\ calls = 3
    /\ Len(new_lines) >= 2

\* ------------------------------------------------------- C4, C5, the regions

\* The body of the comparison handler has computed the regions.
Compared == pc \in {"B_annotate", "B_spacer"} \/ (pc = "done" /\ diff_doc # NoDocument)

\* C4: the regions are in order of position, each begins where the one
\* before it ends on both sides, the first begins at 0 and the last ends at
\* the lengths of the two sequences.
C4_DiffCompleteness ==
    Compared =>
        LET n == Len(opcodes)
        IN  /\ n = 0 => Len(orig) = 0 /\ Len(new_d) = 0
            /\ n > 0 => /\ opcodes[1].i1 = 0 /\ opcodes[1].j1 = 0
                        /\ opcodes[n].i2 = Len(orig) /\ opcodes[n].j2 = Len(new_d)
            /\ \A k \in 1..n : /\ opcodes[k].i1 <= opcodes[k].i2
                               /\ opcodes[k].j1 <= opcodes[k].j2
                               /\ opcodes[k].i1 < opcodes[k].i2
                                  \/ opcodes[k].j1 < opcodes[k].j2
            /\ \A k \in 1..(n - 1) : /\ opcodes[k].i2 = opcodes[k + 1].i1
                                     /\ opcodes[k].j2 = opcodes[k + 1].j1

\* Three regions: a deletion, an equal region and an insertion.
C4_Witness ==
    /\ Compared
    /\ Len(opcodes) = 3
    /\ opcodes[1].tag = "delete"
    /\ opcodes[2].tag = "equal"
    /\ opcodes[3].tag = "insert"

\* The old and the new document have the same blocks.
SameSequence ==
    /\ Len(orig) = Len(new_d)
    /\ \A i \in DOMAIN orig : heap[orig[i]] = heap[new_d[i]]

\* No paragraph of the old document has '*' in its text.
Unmarked ==
    \A i \in DOMAIN orig :
        IsParagraph(heap, orig[i]) => ~contains(TextOf(heap, orig[i]), <<"*">>)

WholeEqual ==
    opcodes = <<[tag |-> "equal", i1 |-> 0, i2 |-> Len(orig), j1 |-> 0, j2 |-> Len(orig)]>>

\* C5 as stated: the same sequence on both sides gives exactly one region,
\* equal, over the whole sequence.
C5_DiffIdentity == Compared /\ SameSequence => WholeEqual

\* C5, amended: the same non-empty sequence on both sides, no paragraph of
\* which has '*' in its text, gives exactly one region, equal, over the
\* whole sequence.
C5_IdentityUnmarked ==
    Compared /\ SameSequence /\ Len(orig) > 0 /\ Unmarked => WholeEqual

\* A header and a table compared with themselves.
C5_Witness ==
    /\ Compared
    /\ SameSequence
    /\ Len(orig) = 2
    /\ Unmarked
    /\ \E i \in DOMAIN orig : ~IsParagraph(heap, orig[i])
    /\ WholeEqual

\* -------------------------------------------------------- C6, extract_articles

\* The indices (0-based) of the header paragraphs of a body.
Headers(h, d) ==
    {i \in 0..(Len(d) - 1) :
        IsParagraph(h, d[i + 1]) /\ ARTICLE_RE(strip(TextOf(h, d[i + 1])))}

\* The span the claim gives the header at index i of a body.
SpanOf(h, d, i) ==
    <<i, Min({j \in Headers(h, d) : j > i} \cup {Len(d)})>>

\* The index was computed from the clone of the original, which has the kinds
\* and the header texts of the original at the same indices.
Indexed == pc \in {"A_loop", "A_call", "A_splice"} \/ (pc = "done" /\ diff_doc = NoDocument)

\* The spans of the index are those the claim gives the headers, one each.
SpansAsClaimed ==
    /\ {articles[k] : k \in DOMAIN articles}
         = {SpanOf(heap, orig, i) : i \in Headers(heap, orig)}
    /\ Cardinality(DOMAIN articles) = Cardinality(Headers(heap, orig))

\* C6 as stated: one span per header paragraph, from the header to the next
\* header or the end, for every block sequence.
C6_SpanPartition == Indexed => SpansAsClaimed

DistinctHeaders ==
    \A i, j \in Headers(heap, orig) :
        i # j => strip(TextOf(heap, orig[i + 1])) # strip(TextOf(heap, orig[j + 1]))

\* C6, amended: when the header paragraphs have pairwise different trimmed
\* texts, there is one span per header paragraph, from the header to the next
\* header or the end; no block before the first header lies in a span.
C6_SpanPartitionDistinct ==
    Indexed /\ DistinctHeaders =>
        /\ SpansAsClaimed
        /\ \A k \in DOMAIN articles : \A b \in 0..(Len(orig) - 1) :
              b < Min(Headers(heap, orig) \cup {Len(orig)}) =>
                  ~(articles[k][1] <= b /\ b < articles[k][2])

\* Prose, then two different headers.
C6_Witness ==
    /\ Indexed
    /\ Len(orig) = 3
    /\ Headers(heap, orig) = {1, 2}
    /\ DistinctHeaders
    /\ Cardinality(DOMAIN articles) = 2

\* ------------------------------------------------- C7, C8, merge_gazette_text

Parseable(t) == GAZETTE_RE(t) # <<0, 0>>

BothParseable ==
    /\ pc = "returned"
    /\ Parseable(input.old_text)
    /\ Parseable(input.new_text)

\* The citation list of the text returned, read back token by token.
Rendered ==
    LET parts == split(GazetteGroup1(result, GAZETTE_RE(result)), <<" ", "i", " ">>)
    IN  [k \in DOMAIN parts |-> strip(parts[k])]

\* C7: with a citation list in both texts, the list of the text returned has
\* every token of either list, each once, and no other token.
C7_CitationUnion ==
    BothParseable =>
        /\ Range(Rendered)
             = Refs(GazetteGroup1(input.old_text, GAZETTE_RE(input.old_text)))
               \cup Refs(GazetteGroup1(input.new_text, GAZETTE_RE(input.new_text)))
        /\ Cardinality(Range(Rendered)) = Len(Rendered)

\* {44/2021} merged with {44/2021, 95/2022} renders 44/2021 i 95/2022.
C7_Witness ==
    /\ pc = "returned"
    /\ input.old_text = text(Citation(Ref44).runs)
    /\ input.new_text = text(Citation(Ref44 \o <<" ", "i", " ">> \o Ref95).runs)
    /\ Rendered = <<Ref44, Ref95>>

\* A token of the form NN/YYYY.
Numeric(tok) ==
    Len(tok) = 3 /\ tok[2] = "/" /\ isdigit(<<tok[1]>>) /\ isdigit(<<tok[3]>>)

\* A token that is no number at all.
FreeText(tok) == ~Numeric(tok) /\ ~isdigit(tok)

\* NN/YYYY tokens by their numbers.
NumericLess(x, y) ==
    \/ int(x[1]) < int(y[1])
    \/ int(x[1]) = int(y[1]) /\ int(x[3]) < int(y[3])

\* C8: in the list of the text returned, the NN/YYYY tokens are in ascending
\* numeric order and none comes after a free-text token.
C8_CitationOrder ==
    BothParseable =>
        \A i, j \in DOMAIN Rendered :
            i < j =>
                /\ Numeric(Rendered[i]) /\ Numeric(Rendered[j])
                      => NumericLess(Rendered[i], Rendered[j])
                /\ Numeric(Rendered[j]) => ~FreeText(Rendered[i])

\* --------------------------------------------------- C9, the annotation pass

\* The annotation pass has just ended.
Annotated == pc = "B_spacer" \/ (pc = "done" /\ ui = "st" /\ diff_doc # NoDocument)

\* The positions (1-based) of the flagged headers of the comparison document.
FlaggedHeaders ==
    {i \in DOMAIN diff_doc :
        /\ IsParagraph(heap, diff_doc[i])
        /\ ARTICLE_RE(strip(TextOf(heap, diff_doc[i])))
        /\ contains(TextOf(heap, diff_doc[i]), <<"*">>)}

\* The positions of the blocks the pass has added.
InsertedByPass == {i \in DOMAIN diff_doc : diff_doc[i] \notin Range(diff_blocks)}

\* C9: after the annotation pass every flagged header has a reference
\* paragraph right before it, as many blocks were added as there are flagged
\* headers, each of them is the reference paragraph, and the blocks present
\* before the pass are in the order they were in.
C9_SpliceStability ==
    Annotated =>
        /\ \A i \in FlaggedHeaders : (i - 1) \in InsertedByPass
        /\ Cardinality(InsertedByPass) = Cardinality(FlaggedHeaders)
        /\ \A i \in InsertedByPass :
              heap[diff_doc[i]] = RefParagraph(extract_amending_ref(heap, gov), ui)
        /\ SelectSeq(diff_doc, LAMBDA id : id \in Range(diff_blocks)) = diff_blocks

\* Three flagged headers, each with its reference paragraph.
C9_Witness ==
    /\ Annotated
    /\ Cardinality(FlaggedHeaders) = 3
    /\ Cardinality(InsertedByPass) = 3

\* ------------------------------------------------------------ C10, the inputs

\* The elements of the three input documents.
InputIds == {id \in Range(orig) \cup Range(gov) \cup Range(new_d) : id > 0}

\* C10: no step of either pipeline changes the body of an input document or
\* an element of one.
C10_NoAliasing ==
    [][/\ orig' = orig
       /\ gov' = gov
       /\ new_d' = new_d
       /\ \A id \in InputIds : heap'[id] = heap[id]]_vars

\* A revision run is over in which the citation of the output was merged
\* and an article was spliced.
C10_Witness ==
    /\ pc = "done"
    /\ updated_doc # NoDocument
    /\ diff_doc = NoDocument
    /\ calls > 0
    /\ FirstGazette(heap, orig) # 0
    /\ FirstGazette(heap, updated_doc) # 0
    /\ TextOf(heap, FirstGazette(heap, updated_doc)) # TextOf(heap, FirstGazette(heap, orig))

\* ------------------------------------------------------- C11, block order

\* The position (1-based) of element id in body d.
PosIn(d, id) == CHOOSE i \in DOMAIN d : d[i] = id

\* The elements a step has added to the output document.
FreshIds == Range(updated_doc') \ Range(updated_doc)

\* C11: when the lines of an amended article are put into the output
\* document, every block that was before the article's span is before each
\* of them and every block that was after the span is after each of them.
C11_BlockOrder ==
    [][pc = "A_splice" =>
          \A n \in FreshIds :
              /\ \A i \in 1..cur.s :
                    updated_doc[i] \in Range(updated_doc') =>
                        PosIn(updated_doc', updated_doc[i]) < PosIn(updated_doc', n)
              /\ \A i \in (cur.e + 1)..Len(updated_doc) :
                    updated_doc[i] \in Range(updated_doc') =>
                        PosIn(updated_doc', n) < PosIn(updated_doc', updated_doc[i])]_vars

\* ------------------------------------------------- C12, no-op on failure

\* A revision run is over whose amendment document was one instruction, for
\* which every call of the service failed.
C12_Run ==
    /\ pc = "done"
    /\ diff_doc = NoDocument
    /\ Len(gov) = 1
    /\ contains(TextOf(heap, gov[1]), CeaseMarker)
    /\ ~from_service
    /\ calls = 3

\* C12: after such a run the paragraph texts of the output document are, in
\* order, those the run gives without the instruction: the texts of the
\* original.
C12_DegradeToNoOp == C12_Run => Texts(heap, updated_doc) = Texts(heap, orig)

\* --------------------------------------------------- C13, bracketed text

\* What a block shows: the text of a paragraph, the token for a table.
Shown(h, b) == IF IsParagraph(h, b) THEN TextOf(h, b) ELSE TableKey

\* The same with a paragraph's text between '[' and ']'.
ShownBracketed(h, b) ==
    IF IsParagraph(h, b) THEN <<"[">> \o TextOf(h, b) \o <<"]">> ELSE TableKey

\* What C13 says the blocks rendered from one region show.
ClaimedOfRegion(op) ==
    LET old_side == [k \in 1..(op.i2 - op.i1) |-> ShownBracketed(heap, orig[op.i1 + k])]
        new_side == [k \in 1..(op.j2 - op.j1) |-> ShownBracketed(heap, new_d[op.j1 + k])]
    IN  CASE op.tag = "equal" ->
                [k \in 1..(op.j2 - op.j1) |-> Shown(heap, new_d[op.j1 + k])]
          [] op.tag = "delete" -> old_side
          [] op.tag = "insert" -> new_side
          [] op.tag = "replace" -> old_side \o new_side

RECURSIVE ClaimedOfRegions(_)
ClaimedOfRegions(ops) ==
    IF ops = <<>> THEN <<>>
    ELSE ClaimedOfRegion(Head(ops)) \o ClaimedOfRegions(Tail(ops))

\* The blocks of the comparison document after the explanatory tables.
RenderedBlocks ==
    SubSeq(diff_blocks, Len(add_explanatory_table([h |-> <<>>, d |-> <<>>]).d) + 1,
           Len(diff_blocks))

\* C13: a paragraph rendered from a delete, insert or replace region shows
\* the source paragraph's text between '[' and ']', a paragraph rendered
\* from an equal region shows the new-side paragraph's text.
C13_BracketedDiffText ==
    pc = "B_annotate" =>
        [k \in DOMAIN RenderedBlocks |-> Shown(heap, RenderedBlocks[k])]
            = ClaimedOfRegions(opcodes)

\* ------------------------------------------------- merge_gazette on its own

\* Longest body of each of the three documents drawn by InitMerge.
MaxMerge == 2

\* A paragraph with the marker and no citation list.
MarkerParagraph == Paragraph(<<Run(MarkerOnly)>>)

OldMergeBlocks == {Citation(Ref44), MarkerParagraph, TextA}

GovMergeBlocks == {Citation(Ref95), MarkerParagraph, TextA}

TargetMergeBlocks == {Header(text(Citation(Ref9).runs)), MarkerParagraph, TextB}

\* merge_gazette is about to be called with the old document, the amendment
\* document and the target document.
InitMerge ==
    /\ \E od \in SeqUpTo(OldMergeBlocks, MaxMerge), gd \in SeqUpTo(GovMergeBlocks, MaxMerge),
          td \in SeqUpTo(TargetMergeBlocks, MaxMerge) :
          /\ heap = od \o gd \o td
          /\ orig = Ids(0, Len(od))
          /\ gov = Ids(Len(od), Len(gd))
          /\ updated_doc = Ids(Len(od) + Len(gd), Len(td))
    /\ ui = "tk"
    /\ new_d = NoDocument
    /\ diff_doc = NoDocument
    /\ pc = "merge_gazette"
    /\ articles = EmptyDict
    /\ todo = <<>>
    /\ cur = None
    /\ attempt = 0
    /\ calls = 0
    /\ new_lines = <<>>
    /\ from_service = FALSE
    /\ opcodes = <<>>
    /\ diff_blocks = <<>>
    /\ input = None
    /\ result = None

MergeGazette ==
    /\ pc = "merge_gazette"
    /\ LET r == merge_gazette([h |-> heap, d |-> updated_doc], orig, gov)
       IN  /\ heap' = r[1].h
           /\ updated_doc' = r[1].d
           /\ result' = IF r[2] THEN "True" ELSE "False"
    /\ pc' = "returned"
    /\ UNCHANGED <<ui, orig, gov, new_d, diff_doc, articles, todo, cur, attempt, calls,
                   new_lines, from_service, opcodes, diff_blocks, input>>

SpecMerge == InitMerge /\ [][MergeGazette]_vars

\* ------------------------------------------------ C14, merge degradation

\* The citation paragraph of a body has a citation list.
HasList(h, d) == FirstGazette(h, d) # 0 /\ Parseable(TextOf(h, FirstGazette(h, d)))

\* C14: merge_gazette returns; with no marker paragraph in the old or in
\* the target document it returns false and leaves every element of the
\* target as it was; with a marker paragraph in both and no citation list in
\* the old paragraph or in the amendment document it returns true and the
\* first marker paragraph of the target has the old paragraph's text.
C14_MergeDegradation ==
    [][pc = "merge_gazette" =>
          /\ pc' = "returned"
          /\ updated_doc' = updated_doc
          /\ FirstGazette(heap, orig) = 0 \/ FirstGazette(heap, updated_doc) = 0 =>
                /\ result' = "False"
                /\ \A id \in Range(updated_doc) : heap'[id] = heap[id]
          /\ /\ FirstGazette(heap, orig) # 0
             /\ FirstGazette(heap, updated_doc) # 0
             /\ ~HasList(heap, orig) \/ ~HasList(heap, gov)
             => /\ result' = "True"
                /\ TextOf(heap', FirstGazette(heap, updated_doc))
                     = TextOf(heap, FirstGazette(heap, orig))]_vars

\* The old paragraph has a list and the amendment document has none: the
\* target paragraph, a header with another citation, now has the old text.
C14_Witness ==
    /\ pc = "returned"
    /\ result = "True"
    /\ HasList(heap, orig)
    /\ FirstGazette(heap, gov) = 0
    /\ FirstGazette(heap, updated_doc) # 0
    /\ heap[orig[1]] = Citation(Ref44)
    /\ \E i \in DOMAIN updated_doc :
          /\ heap[updated_doc[i]].align = "center"
          /\ TextOf(heap, updated_doc[i]) = text(Citation(Ref44).runs)

\* --------------------------------------------------- C15, skipped instruction

\* The next instruction names an article that is no key of the index.
NextIsUnknown ==
    /\ pc = "A_loop"
    /\ todo # <<>>
    /\ Aid(Head(todo).article_num) \notin DOMAIN articles

\* C15: such an instruction leads to no call of the service and to no
\* change of the output document, and the loop goes on with the
\* instructions after it.
C15_SkippedInstruction ==
    [][NextIsUnknown =>
          /\ pc' = "A_loop"
          /\ todo' = Tail(todo)
          /\ calls' = calls
          /\ attempt' = attempt
          /\ updated_doc' = updated_doc
          /\ heap' = heap]_vars

\* The first of two instructions was skipped and the service is called for
\* the second.
C15_Witness ==
    /\ pc = "A_call"
    /\ Len(gov) = 2
    /\ heap[gov[1]] = Instruction("1", "2")
    /\ heap[gov[2]] = Instruction("2", "1")
    /\ Aid("1") \notin DOMAIN articles
    /\ cur.inst = TextOf(heap, gov[2])
    /\ todo = <<>>

\* ------------------------------------------------- C16, amending reference

\* The trimmed, upper-case text of the first paragraph of the amendment
\* document that passes Test, <<>> when none does.
FirstPassing(Test(_)) ==
    LET hits == {i \in DOMAIN gov : /\ IsParagraph(heap, gov[i])
                                    /\ Test(strip(TextOf(heap, gov[i])))}
    IN  IF hits = {} THEN <<>> ELSE upper(strip(TextOf(heap, gov[Min(hits)])))

NamesStatute(t) == contains(upper(t), <<"ZAKON O">>)

HasMarker(t) == contains(upper(t), <<"SL. GLASNIK RS">>)

\* The string C16 describes.
ClaimedRef ==
    IF /\ FirstPassing(ARTICLE_RE) # <<>>
       /\ FirstPassing(NamesStatute) # <<>>
       /\ FirstPassing(HasMarker) # <<>>
    THEN <<"[">> \o FirstPassing(ARTICLE_RE) \o <<" ">> \o FirstPassing(NamesStatute)
         \o <<" ">> \o FirstPassing(HasMarker) \o <<"]">>
    ELSE FallbackRef

\* C16: the reference paragraphs of the comparison document carry the
\* string composed from the first header, the first paragraph naming a
\* statute and the first paragraph with the gazette marker of the amendment
\* document, or the fixed literal when one of the three is missing.
C16_AmendingRefSelection ==
    Annotated => \A i \in InsertedByPass : TextOf(heap, diff_doc[i]) = ClaimedRef

\* ------------------------------------------------------ C17, retry protocol

\* Answer r, split into trimmed non-empty lines, has two lines or more and
\* '*' in the first.
Passes(r) ==
    /\ ~r.raised
    /\ Len(ResponseLines(r.content)) >= 2
    /\ contains(ResponseLines(r.content)[1], <<"*">>)

\* C17: every step of apply_amendment_text is one call with some answer of
\* the service; an answer that passes is returned at once, an answer that
\* does not pass is never returned and, below 3 calls, leads to the next
\* attempt on the same text; there are never more than 3 calls, and none
\* after the lines were returned.
C17_RetryProtocol ==
    [][/\ pc = "A_call" =>
             \E r \in Responses(cur.old_text, cur.stav) :
                 /\ calls' = calls + 1
                 /\ calls' <= 3
                 /\ Passes(r) => /\ pc' = "A_splice"
                                 /\ from_service'
                                 /\ new_lines' = ResponseLines(r.content)
                 /\ ~Passes(r) => /\ ~(pc' = "A_splice" /\ from_service')
                                  /\ calls' < 3 => pc' = "A_call" /\ cur' = cur
       /\ pc = "A_splice" => calls' = calls]_vars

\* The first answer was rejected and the second returned.
C17_Witness ==
    /\ pc = "A_splice"
    /\ from_service
    /\ calls = 2
    /\ attempt = 1

\* --------------------------------------------------- C18, index freshness

\* The amendment document is two instructions for two different articles.
TwoArticles ==
    /\ Len(gov) = 2
    /\ contains(TextOf(heap, gov[1]), CeaseMarker)
    /\ contains(TextOf(heap, gov[2]), CeaseMarker)
    /\ TextOf(heap, gov[1]) # TextOf(heap, gov[2])

\* C18: when the service is called for an instruction, the span used is
\* the span the named article has in the output document as it is now.
C18_IndexFreshness ==
    pc = "A_call" /\ TwoArticles =>
        \A k \in DOMAIN articles :
            articles[k] = <<cur.s, cur.e>> =>
                /\ k \in DOMAIN extract_articles(heap, updated_doc)
                /\ extract_articles(heap, updated_doc)[k] = <<cur.s, cur.e>>

\* ------------------------------------------------------- C19, span text

\* The paragraphs among the blocks with indices s..e-1 of the output document.
SpanParagraphs == paragraphs(heap, SubSeq(updated_doc, cur.s + 1, cur.e))

\* C19, for an amendment document of one paragraph (the index is that of
\* the document as it is): looking up the span raises nothing, the text
\* given to the service is that of the paragraphs among the blocks of the
\* span, joined by newlines, and the paragraphs removed are these.
C19_SpanText ==
    [][Len(gov) = 1 =>
          /\ pc' # "raised"
          /\ pc' = "A_call" =>
                cur'.old_text
                    = join(<<"\n">>,
                           Texts(heap', SubSeq(updated_doc', cur'.s + 1, cur'.e)))
          /\ pc = "A_splice" =>
                Range(updated_doc) \ Range(updated_doc') = Range(SpanParagraphs)]_vars

\* ------------------------------------------ deep_copy_paragraph on its own

\* The alignments and the shadings a paragraph is drawn with.
Alignments == {None, "left", "center", "right", "justify"}

Shadings == {<<>>, <<"FFFF00">>, <<"00FF00">>}

\* deep_copy_paragraph is about to be called with a source paragraph
\* (element 1) and a target paragraph (element 2) of some documents.
InitCopy ==
    /\ \E sa \in Alignments, ta \in Alignments, ss \in Shadings, ts \in Shadings :
          heap = <<[TextA EXCEPT !.align = sa, !.shd = ss],
                   [TextB EXCEPT !.align = ta, !.shd = ts]>>
    /\ orig = <<1>>
    /\ updated_doc = <<2>>
    /\ ui = "tk"
    /\ gov = <<>>
    /\ new_d = NoDocument
    /\ diff_doc = NoDocument
    /\ pc = "deep_copy_paragraph"
    /\ articles = EmptyDict
    /\ todo = <<>>
    /\ cur = None
    /\ attempt = 0
    /\ calls = 0
    /\ new_lines = <<>>
    /\ from_service = FALSE
    /\ opcodes = <<>>
    /\ diff_blocks = <<>>
    /\ input = None
    /\ result = None

DeepCopyParagraph ==
    /\ pc = "deep_copy_paragraph"
    /\ heap' = deep_copy_paragraph([h |-> heap, d |-> updated_doc], orig[1],
                                   updated_doc[1]).h
    /\ pc' = "returned"
    /\ UNCHANGED <<ui, orig, gov, new_d, updated_doc, diff_doc, articles, todo, cur,
                   attempt, calls, new_lines, from_service, opcodes, diff_blocks,
                   input, result>>

SpecCopy == InitCopy /\ [][DeepCopyParagraph]_vars

\* ------------------------------------------ C20, paragraph-level formatting

\* C20: after deep_copy_paragraph the target's alignment is the source's
\* when the source has one, and the target's shading, as the getter reads
\* it, is the source's when the source has one.
C20_ParagraphFormatting ==
    pc = "returned" =>
        /\ heap[orig[1]].align # None =>
              heap[updated_doc[1]].align = heap[orig[1]].align
        /\ get_shading(heap[orig[1]].shd) # None =>
              get_shading(heap[updated_doc[1]].shd) = get_shading(heap[orig[1]].shd)

\* ------------------------------------------------- C21, citation list only

\* The text of t before the match of GAZETTE_RE, and the text after it.
BeforeCitation(t) == SubSeq(t, 1, GAZETTE_RE(t)[1] - 1)

AfterCitation(t) == SubSeq(t, GAZETTE_RE(t)[2] + 1, Len(t))

\* C21: with a citation list in both texts, the text returned has a citation
\* list, the text before the gazette-name literal and the text after the
\* closing parenthesis are those of the old text, and merging the same new
\* text into the text returned gives that text again.
C21_CitationOnly ==
    BothParseable =>
        /\ Parseable(result)
        /\ BeforeCitation(result) = BeforeCitation(input.old_text)
        /\ AfterCitation(result) = AfterCitation(input.old_text)
        /\ merge_gazette_text(result, input.new_text) = result

\* ------------------------------------------------------ C22, diff colouring

\* Every run of a block: those of a paragraph, those of the paragraphs of
\* the cells of a table.
RunsOf(el) ==
    IF el.kind = "P" THEN el.runs
    ELSE Concat([c \in DOMAIN el.cells |->
                    Concat([i \in DOMAIN el.cells[c].paras |->
                               el.cells[c].paras[i].runs])])

Colours(el) == [i \in DOMAIN RunsOf(el) |-> RunsOf(el)[i].color]

\* For one region, the source block and the fixed colour (None: the block's
\* own colours) of every block rendered from it, in rendering order.
ColourPlan(op) ==
    LET old_side == [k \in 1..(op.i2 - op.i1) |-> <<orig[op.i1 + k], Removed>>]
        new_side == [k \in 1..(op.j2 - op.j1) |-> <<new_d[op.j1 + k], Added>>]
    IN  CASE op.tag = "equal" -> [k \in 1..(op.j2 - op.j1) |-> <<new_d[op.j1 + k], None>>]
          [] op.tag = "delete" -> old_side
          [] op.tag = "insert" -> new_side
          [] op.tag = "replace" -> old_side \o new_side

RECURSIVE ColourPlans(_)
ColourPlans(ops) ==
    IF ops = <<>> THEN <<>> ELSE ColourPlan(Head(ops)) \o ColourPlans(Tail(ops))

\* C22: in the comparison output every run of a block rendered from the old
\* side of a delete or replace region is FF0000, every run of a block
\* rendered from the new side of an insert or replace region is 00CC33, and
\* the runs of a block rendered from an equal region have the colours of the
\* runs of the new-side block.
C22_DiffColouring ==
    pc \in {"B_annotate", "B_spacer", "done"} =>
        /\ Len(RenderedBlocks) = Len(ColourPlans(opcodes))
        /\ \A k \in DOMAIN RenderedBlocks :
              LET plan == ColourPlans(opcodes)[k]
                  cs == Colours(heap[RenderedBlocks[k]])
              IN  IF plan[2] = None THEN cs = Colours(heap[plan[1]])
                  ELSE \A i \in DOMAIN cs : cs[i] = plan[2]

\* A finished comparison with an equal region whose block has a coloured
\* run and a replace region: runs of all three kinds are in the output.
C22_Witness ==
    /\ pc = "done"
    /\ \E i \in DOMAIN opcodes : opcodes[i].tag = "replace"
    /\ \E i \in DOMAIN opcodes : opcodes[i].tag = "equal"
    /\ \A c \in {Removed, Added, "0000FF"} :
          \E k \in DOMAIN RenderedBlocks :
              \E i \in DOMAIN Colours(heap[RenderedBlocks[k]]) :
                  Colours(heap[RenderedBlocks[k]])[i] = c
    /\ \E k \in DOMAIN RenderedBlocks :
          heap[RenderedBlocks[k]].kind = "T" /\ Colours(heap[RenderedBlocks[k]]) # <<>>

\* ------------------------------------------------------- C23, spacer fix-up

\* The desktop comparison has finished and a rendered paragraph has the text
\* "Clan 1".
C23_Run ==
    /\ pc = "done"
    /\ ui = "tk"
    /\ \E k \in DOMAIN diff_blocks :
          IsParagraph(heap, diff_blocks[k]) /\ TextOf(heap, diff_blocks[k]) = text(Clan1.runs)

\* The first block of the output whose text is "Clan 1".
FirstHeader ==
    Min({k \in DOMAIN diff_doc : /\ IsParagraph(heap, diff_doc[k])
                                 /\ diff_doc[k] \in Range(diff_blocks)
                                 /\ TextOf(heap, diff_doc[k]) = text(Clan1.runs)})

IsHeader(id) == IsParagraph(heap, id) /\ ARTICLE_RE(strip(TextOf(heap, id)))

\* C23: the output has one block more than the rendered blocks and the
\* reference paragraphs; that block, the last element created, is a paragraph
\* with the text "." and the formatting of the "Clan 1" header; it comes
\* after that header with no article header in between, and the block after
\* it, if any, is an article header or the reference paragraph of one.
C23_SpacerFixUp ==
    C23_Run =>
        LET spacer == Len(heap)
            at == PosIn(diff_doc, spacer)
            header == heap[diff_doc[FirstHeader]]
        IN  /\ Len(diff_doc) = Len(diff_blocks)
                               + Len(insert_positions(heap, diff_blocks)) + 1
            /\ spacer \notin Range(diff_blocks)
            /\ spacer \in Range(diff_doc)
            /\ IsParagraph(heap, spacer)
            /\ TextOf(heap, spacer) = <<".">>
            /\ heap[spacer].style = header.style
            /\ heap[spacer].align = header.align
            /\ heap[spacer].indents = header.indents
            /\ heap[spacer].spacing = header.spacing
            /\ get_shading(heap[spacer].shd) = get_shading(header.shd)
            /\ at > FirstHeader
            /\ \A k \in (FirstHeader + 1)..(at - 1) : ~IsHeader(diff_doc[k])
            /\ at < Len(diff_doc) =>
                  \/ IsHeader(diff_doc[at + 1])
                  \/ diff_doc[at + 1] \notin Range(diff_blocks)

\* ------------------------------------------- C24, both inputs reconstructed

\* The elements of s at the positions in S, in order.
SubAt(s, S) ==
    LET at == SelectSeq([i \in DOMAIN s |-> i], LAMBDA i : i \in S)
    IN  [k \in DOMAIN at |-> s[at[k]]]

\* The positions (1-based) of the old document inside an equal region.
InEqual ==
    {i \in DOMAIN orig : \E k \in DOMAIN opcodes :
        /\ opcodes[k].tag = "equal"
        /\ opcodes[k].i1 < i
        /\ i <= opcodes[k].i2}

ShownAll(d) == [k \in DOMAIN d |-> Shown(heap, d[k])]

\* C24: when the regions have been rendered, the rendered blocks split into
\* those showing the blocks of the new document, each once and in the order
\* of the new document, and those showing the blocks of the old document
\* outside equal regions, each once and in the order of the old document;
\* the two blocks of every pair of an equal region have the same comparison
\* key; the number of rendered blocks is that of the new document plus that
\* of the old blocks outside equal regions.
C24_InputsReconstructed ==
    pc = "B_annotate" =>
        /\ Len(RenderedBlocks) = Len(new_d) + Cardinality(DOMAIN orig \ InEqual)
        /\ \E N \in SUBSET DOMAIN RenderedBlocks :
              /\ ShownAll(SubAt(RenderedBlocks, N)) = ShownAll(new_d)
              /\ ShownAll(SubAt(RenderedBlocks, DOMAIN RenderedBlocks \ N))
                    = ShownAll(SubAt(orig, DOMAIN orig \ InEqual))
        /\ \A k \in DOMAIN opcodes :
              opcodes[k].tag = "equal" =>
                  /\ opcodes[k].i2 - opcodes[k].i1 = opcodes[k].j2 - opcodes[k].j1
                  /\ \A n \in 1..(opcodes[k].i2 - opcodes[k].i1) :
                        OrigKey(heap, orig[opcodes[k].i1 + n])
                            = NewKey(heap, new_d[opcodes[k].j1 + n])

\* Rendered regions with an equal region and a replace region: blocks of
\* both documents are in the rendering.
C24_Witness ==
    /\ pc = "B_annotate"
    /\ \E k \in DOMAIN opcodes : opcodes[k].tag = "equal"
    /\ \E k \in DOMAIN opcodes : opcodes[k].tag = "replace"
    /\ Len(RenderedBlocks) = 3

====
